---------------------------- MODULE Spec2Model ----------------------------
(***************************************************************************)
(* A model of yt-transcript-dl.py: the command-line driver main() with its *)
(* side effects (fetch, clipboard, file, standard output, error stream),   *)
(* and the pure functions it calls (get_video_id, format_transcript and    *)
(* the three timestamp formatters).                                        *)
(*                                                                         *)
(* Text is a sequence of tokens.  A token is a one-character string       *)
(* wherever the code looks inside the text (identifiers, paths, numbers,   *)
(* timestamps); a caption's text and a fixed message are single tokens.    *)
(***************************************************************************)
EXTENDS Integers, Sequences, FiniteSets, TLC

VARIABLES
    pc,                   \* main's position
    argv,                 \* the command line as typed
    args,                 \* argparse's namespace (args.output_file is rewritten)
    video_id,             \* main's local video_id
    transcript,           \* main's local transcript
    formatted_transcript, \* main's local formatted_transcript
    events,               \* every side effect of the run, in order
    clipboard,            \* the system clipboard
    file,                 \* the file system: <<>> or <<path, content>>
    exitCode,             \* the process's exit status, -1 while it runs
    fpBias,               \* where the binary double lies about its decimal value
    fin,                  \* argument of a function called on its own
    fout                  \* its result

vars == <<pc, argv, args, video_id, transcript, formatted_transcript, events,
          clipboard, file, exitCode, fpBias, fin, fout>>

----------------------------------------------------------------------------
(* Bounds of the model *)

\* longest output path drawn
MaxPathLen == 3
\* longest transcript drawn
MaxEntries == 2
\* longest text around the identifier run drawn for get_video_id
MaxAffix == 2

----------------------------------------------------------------------------
(* Values *)

None == <<"None">>

Range(s) == {s[i] : i \in 1..Len(s)}

SeqsUpTo(S, n) == UNION {[1..k -> S] : k \in 0..n}

Max(a, b) == IF a >= b THEN a ELSE b

Digits == <<"0", "1", "2", "3", "4", "5", "6", "7", "8", "9">>

DigitSet == Range(Digits)

DigitVal(c) == (CHOOSE i \in 1..10 : Digits[i] = c) - 1

\* str(n) for n >= 0
RECURSIVE Str(_)
Str(n) == IF n < 10 THEN <<Digits[n + 1]>> ELSE Str(n \div 10) \o <<Digits[(n % 10) + 1]>>

\* f"{n:0{w}d}": zero-padded to at least w characters, never cut
RECURSIVE Pad(_, _)
Pad(n, w) == IF Len(Str(n)) >= w THEN Str(n) ELSE <<"0">> \o Pad(n, w - 1)

\* int(digits)
RECURSIVE Int10(_)
Int10(ds) == IF ds = <<>> THEN 0 ELSE 10 * Int10(SubSeq(ds, 1, Len(ds) - 1)) + DigitVal(ds[Len(ds)])

\* '\n'.join(lines), each line a sequence of tokens
RECURSIVE JoinLines(_)
JoinLines(lines) ==
    IF lines = <<>> THEN <<>>
    ELSE IF Len(lines) = 1 THEN lines[1]
    ELSE lines[1] \o <<"\n">> \o JoinLines(Tail(lines))

----------------------------------------------------------------------------
(* get_video_id *)

\* {11}
IdLen == 11

\* [0-9A-Za-z_-]
IdChar ==
    {"0", "1", "2", "3", "4", "5", "6", "7", "8", "9",
     "A", "B", "C", "D", "E", "F", "G", "H", "I", "J", "K", "L", "M",
     "N", "O", "P", "Q", "R", "S", "T", "U", "V", "W", "X", "Y", "Z",
     "a", "b", "c", "d", "e", "f", "g", "h", "i", "j", "k", "l", "m",
     "n", "o", "p", "q", "r", "s", "t", "u", "v", "w", "x", "y", "z",
     "_", "-"}

\* ([0-9A-Za-z_-]{11}) matches s from position i on
IdAt(s, i) ==
    /\ i >= 1
    /\ i + IdLen - 1 <= Len(s)
    /\ \A k \in i..(i + IdLen - 1) : s[k] \in IdChar

\* where the group starts when (?:v=|\/)([0-9A-Za-z_-]{11}).* is matched at i,
\* 0 when it does not match there; the trailing .* matches anything, nothing too
UrlGroupAt(s, i) ==
    IF i + 1 <= Len(s) /\ s[i] = "v" /\ s[i + 1] = "=" /\ IdAt(s, i + 2) THEN i + 2
    ELSE IF s[i] = "/" /\ IdAt(s, i + 1) THEN i + 1
    ELSE 0

\* re.search(patterns[0], s): the leftmost position that matches
UrlSearch(s) ==
    LET hits == {i \in 1..Len(s) : UrlGroupAt(s, i) > 0}
    IN  IF hits = {} THEN 0
        ELSE UrlGroupAt(s, CHOOSE i \in hits : \A j \in hits : i <= j)

\* $ without re.MULTILINE: at the end, and also just before a newline that ends s
DollarAt(s, i) == i = Len(s) + 1 \/ (i = Len(s) /\ s[i] = "\n")

\* re.search(patterns[1], s): ^([0-9A-Za-z_-]{11})$
BareSearch(s) == IF IdAt(s, 1) /\ DollarAt(s, IdLen + 1) THEN 1 ELSE 0

ValueError == [ok |-> FALSE, id |-> <<>>]

get_video_id(url_or_id) ==
    IF UrlSearch(url_or_id) > 0
    THEN [ok |-> TRUE, id |-> SubSeq(url_or_id, UrlSearch(url_or_id),
                                     UrlSearch(url_or_id) + IdLen - 1)]
    ELSE IF BareSearch(url_or_id) > 0
    THEN [ok |-> TRUE, id |-> SubSeq(url_or_id, 1, IdLen)]
    ELSE ValueError

----------------------------------------------------------------------------
(* Seconds.  A float of seconds is [whole, sub]: whole seconds and tenths  *)
(* of a microsecond, so that timedelta's rounding to microseconds and the  *)
(* format's rounding to milliseconds are both steps of the model.          *)

UsPerSec == 1000 * 1000

SubPerSec == 10 * UsPerSec

SubPerUs == SubPerSec \div UsPerSec

\* a + b on floats
AddSeconds(a, b) ==
    [whole |-> a.whole + b.whole + ((a.sub + b.sub) \div SubPerSec),
     sub |-> (a.sub + b.sub) % SubPerSec]

\* round() of x / unit to an integer.  Off a tie the nearest; at a decimal tie
\* the double decides: above or below its decimal value (fpBias), or exactly
\* on it, and then to the even neighbour
RoundHalf(x, unit) ==
    LET q == x \div unit
        r == x % unit
    IN  IF 2 * r < unit THEN q
        ELSE IF 2 * r > unit THEN q + 1
        ELSE IF fpBias > 0 THEN q + 1
        ELSE IF fpBias < 0 THEN q
        ELSE IF q % 2 = 0 THEN q ELSE q + 1

\* timedelta(seconds=seconds): microseconds rounded, then normalised
timedelta(seconds) ==
    LET us == RoundHalf(seconds.sub, SubPerUs)
    IN  [whole |-> seconds.whole + (us \div UsPerSec), us |-> us % UsPerSec]

\* f"{seconds:06.3f}" of td.total_seconds() % 60: the float is rounded to three
\* decimals after the minutes were taken off, so a carry stays in this field
SecondsField(td) ==
    LET ms == RoundHalf(td.us, 1000)
    IN  Pad((td.whole % 60) + (ms \div 1000), 2) \o <<".">> \o Pad(ms % 1000, 3)

\* str.replace(old, new) on one-character tokens
Replace(s, old, new) == [i \in 1..Len(s) |-> IF s[i] = old THEN new ELSE s[i]]

format_timestamp(entry) ==
    LET time == entry.start.whole
        hours == time \div 3600
        minutes == (time % 3600) \div 60
        seconds == time % 60
    IN  <<"[">> \o Pad(hours, 2) \o <<":">> \o Pad(minutes, 2) \o <<":">>
            \o Pad(seconds, 2) \o <<"]">>

format_vtt_timestamp(seconds) ==
    LET td == timedelta(seconds)
        hours == td.whole \div 3600
        minutes == (td.whole % 3600) \div 60
    IN  Pad(hours, 2) \o <<":">> \o Pad(minutes, 2) \o <<":">> \o SecondsField(td)

\* td.seconds in place of td.total_seconds(): the days are lost
format_srt_timestamp_TdSeconds(seconds) ==
    LET td == timedelta(seconds)
        hours == (td.whole % 86400) \div 3600
        minutes == (td.whole % 3600) \div 60
    IN  Replace(Pad(hours, 2) \o <<":">> \o Pad(minutes, 2) \o <<":">> \o SecondsField(td),
                ".", ",")

format_srt_timestamp(seconds) ==
    LET td == timedelta(seconds)
        hours == td.whole \div 3600
        minutes == (td.whole % 3600) \div 60
    IN  Replace(Pad(hours, 2) \o <<":">> \o Pad(minutes, 2) \o <<":">> \o SecondsField(td),
                ".", ",")

----------------------------------------------------------------------------
(* format_transcript *)

Formats == {"text", "json", "srt", "vtt"}

\* strip('[]'): the brackets at both ends removed
StripBrackets(s) ==
    LET isB(c) == c = "[" \/ c = "]"
        first == IF \E i \in 1..Len(s) : ~isB(s[i])
                 THEN CHOOSE i \in 1..Len(s) : ~isB(s[i]) /\ \A j \in 1..(i - 1) : isB(s[j])
                 ELSE Len(s) + 1
        last == IF \E i \in 1..Len(s) : ~isB(s[i])
                THEN CHOOSE i \in 1..Len(s) : ~isB(s[i]) /\ \A j \in (i + 1)..Len(s) : isB(s[j])
                ELSE Len(s)
    IN  SubSeq(s, first, last)

\* the digits of sub after the decimal point, without trailing zeros
RECURSIVE Fraction(_, _)
Fraction(sub, unit) ==
    IF sub = 0 THEN <<>>
    ELSE <<Digits[(sub \div (unit \div 10)) + 1]>> \o Fraction(sub % (unit \div 10), unit \div 10)

\* json.dumps of a float: repr, 2.0 and 2.5
FloatRepr(x) ==
    Str(x.whole) \o <<".">> \o (IF x.sub = 0 THEN <<"0">> ELSE Fraction(x.sub, SubPerSec))

\* TextFormatter().format_transcript of youtube_transcript_api: the texts joined by newlines
TextFormatter(t) == JoinLines([i \in 1..Len(t) |-> <<t[i].text>>])

TextLines(t) == [i \in 1..Len(t) |-> format_timestamp(t[i]) \o <<" ", t[i].text>>]

\* the lines of json.dumps(json_transcript, indent=2, ensure_ascii=False)
RECURSIVE JsonLines(_)
JsonLines(t) ==
    IF t = <<>> THEN <<>>
    ELSE << <<"  {">>,
            <<"    \"text\": \"", t[1].text, "\",">>,
            <<"    \"start\": \"">> \o StripBrackets(format_timestamp(t[1])) \o <<"\",">>,
            <<"    \"duration\": ">> \o FloatRepr(t[1].duration),
            <<IF Len(t) = 1 THEN "  }" ELSE "  },">> >> \o JsonLines(Tail(t))

JsonDumps(t) == IF t = <<>> THEN <<"[]">> ELSE JoinLines(<< <<"[">> >> \o JsonLines(t) \o << <<"]">> >>)

RECURSIVE SrtLines(_, _)
SrtLines(t, i) ==
    IF t = <<>> THEN <<>>
    ELSE << Str(i),
            format_srt_timestamp(t[1].start) \o <<" --> ">>
                \o format_srt_timestamp(AddSeconds(t[1].start, t[1].duration)),
            <<t[1].text>>,
            <<>> >> \o SrtLines(Tail(t), i + 1)

RECURSIVE VttLines(_)
VttLines(t) ==
    IF t = <<>> THEN <<>>
    ELSE << format_vtt_timestamp(t[1].start) \o <<" --> ">>
                \o format_vtt_timestamp(AddSeconds(t[1].start, t[1].duration)),
            <<t[1].text>>,
            <<>> >> \o VttLines(Tail(t))

\* [ok, text]: the string returned, or ValueError raised
format_transcript(t, format_type, include_timestamps) ==
    IF format_type = "text"
    THEN IF include_timestamps
         THEN [ok |-> TRUE, text |-> JoinLines(TextLines(t))]
         ELSE [ok |-> TRUE, text |-> TextFormatter(t)]
    ELSE IF format_type = "json" THEN [ok |-> TRUE, text |-> JsonDumps(t)]
    ELSE IF format_type = "srt" THEN [ok |-> TRUE, text |-> JoinLines(SrtLines(t, 1))]
    ELSE IF format_type = "vtt"
    THEN [ok |-> TRUE, text |-> JoinLines(<< <<"WEBVTT", "\n">> >> \o VttLines(t))]
    ELSE [ok |-> FALSE, text |-> <<>>]

get_default_extension(format_type) ==
    IF format_type = "text" THEN <<".", "t", "x", "t">>
    ELSE IF format_type = "json" THEN <<".", "j", "s", "o", "n">>
    ELSE IF format_type = "srt" THEN <<".", "s", "r", "t">>
    ELSE IF format_type = "vtt" THEN <<".", "v", "t", "t">>
    ELSE <<".", "t", "x", "t">>

----------------------------------------------------------------------------
(* The run's inputs *)

Id1 == <<"d", "Q", "w", "4", "w", "9", "W", "g", "X", "c", "Q">>

\* args.video_id: a bare identifier, a short URL, a watch URL, and no identifier
VideoArgs ==
    { Id1,
      <<"y", "o", "u", "t", "u", ".", "b", "e", "/">> \o Id1,
      <<"/", "w", "a", "t", "c", "h", "?", "v", "=">> \o Id1 \o <<"&", "t", "=", "1">>,
      <<"n", "o", "t", "-", "a", "n", "-", "i", "d">> }

PathChar == {"c", ".", "/"}

\* args.output_file: absent (None), or the string given, the empty one too
OutputFiles(n) == {None} \cup SeqsUpTo(PathChar, n)

\* --format as typed: argparse has not looked at it yet
FormatArgs == Formats \cup {"xml"}

Secs(w, s) == [whole |-> w, sub |-> s]

\* what the provider returns
Fetched ==
    { << [text |-> "Hello", start |-> Secs(0, 0), duration |-> Secs(2, 0)],
         [text |-> "World", start |-> Secs(2, 0), duration |-> Secs(3, 0)] >>,
      << [text |-> "Late", start |-> Secs(3725, 8900000), duration |-> Secs(1, 5000000)] >> }

\* bool(x) of an optional string
Truthy(x) == x # None /\ x # <<>>

\* "-" * 40
SepLine == <<"----------------------------------------">>

Ev(op, by, what, data) == [op |-> op, by |-> by, what |-> what, data |-> data]

\* the four prints of a verbose echo
Echo(by, content) ==
    << Ev("stdout", by, "echo_header", <<"\nTranscript content:">>),
       Ev("stdout", by, "echo_sep", SepLine),
       Ev("stdout", by, "echo_content", content),
       Ev("stdout", by, "echo_sep", SepLine) >>

----------------------------------------------------------------------------
(* main *)

Init ==
    /\ pc = "parse_args"
    /\ argv \in [video_id : VideoArgs, output_file : OutputFiles(MaxPathLen), format : FormatArgs,
                 add_timestamps : BOOLEAN, verbose : BOOLEAN, clipboard : BOOLEAN]
    /\ args = None
    /\ video_id = None
    /\ transcript = None
    /\ formatted_transcript = None
    /\ events = <<>>
    /\ clipboard = None
    /\ file = <<>>
    /\ exitCode = -1
    /\ fpBias = 0
    /\ fin = None
    /\ fout = None

\* sys.exit(code): nothing of main runs after it
Exit(code) ==
    /\ pc' = "exited"
    /\ exitCode' = code

\* main with the file written before the clipboard is filled
StepAfterSaveFirst(step) ==
    CASE step = "parse_args" -> "get_video_id"
      [] step = "get_video_id" -> "get_transcript"
      [] step = "get_transcript" -> "format_transcript"
      [] step = "format_transcript" -> "default_extension"
      [] step = "default_extension" -> "output"
      [] step = "output" -> "clipboard"
      [] step = "clipboard" -> "verbose_echo"
      [] step = "verbose_echo" -> "return"

\* the statements of main's try block, in order
StepAfter(step) ==
    CASE step = "parse_args" -> "get_video_id"
      [] step = "get_video_id" -> "get_transcript"
      [] step = "get_transcript" -> "format_transcript"
      [] step = "format_transcript" -> "default_extension"
      [] step = "default_extension" -> "clipboard"
      [] step = "clipboard" -> "output"
      [] step = "output" -> "verbose_echo"
      [] step = "verbose_echo" -> "return"

\* main's except Exception clause
ExceptClause(msg) ==
    /\ events' = Append(events, Ev("stderr", "main", "error", <<"Error: ", msg>>))
    /\ Exit(1)

\* parser.parse_args(): a --format outside choices ends the process in
\* parser.error, usage and message on the error stream, status 2
ParseArgs ==
    /\ pc = "parse_args"
    /\ IF argv.format \in Formats
       THEN /\ args' = argv
            /\ pc' = StepAfter("parse_args")
            /\ UNCHANGED <<events, exitCode>>
       ELSE /\ events' = Append(events, Ev("stderr", "argparse", "error",
                                           <<"usage", "error: argument --format: invalid choice">>))
            /\ Exit(2)
            /\ UNCHANGED args
    /\ UNCHANGED <<argv, video_id, transcript, formatted_transcript, clipboard, file,
                   fpBias, fin, fout>>

\* video_id = get_video_id(args.video_id)
GetVideoId ==
    /\ pc = "get_video_id"
    /\ LET r == get_video_id(args.video_id)
       IN  IF r.ok
           THEN /\ video_id' = r.id
                /\ pc' = StepAfter("get_video_id")
                /\ UNCHANGED <<events, exitCode>>
           ELSE /\ ExceptClause("Invalid YouTube URL or video ID")
                /\ UNCHANGED video_id
    /\ UNCHANGED <<argv, args, transcript, formatted_transcript, clipboard, file, fpBias, fin, fout>>

\* get_transcript without its sys.exit(1): it reports and returns None
FetchFailedGoesOn ==
    /\ events' = events \o << Ev("fetch", "get_transcript", "failed", video_id),
                              Ev("stderr", "get_transcript", "error",
                                 <<"Error fetching transcript: ">>) >>
    /\ transcript' = <<>>
    /\ pc' = StepAfter("get_transcript")
    /\ UNCHANGED exitCode

\* what a failed fetch does: report and sys.exit(1), inside get_transcript
FetchFailed ==
    /\ events' = events \o << Ev("fetch", "get_transcript", "failed", video_id),
                              Ev("stderr", "get_transcript", "error",
                                 <<"Error fetching transcript: ">>) >>
    /\ Exit(1)
    /\ UNCHANGED transcript

\* transcript = get_transcript(video_id): the provider answers or fails
GetTranscript ==
    /\ pc = "get_transcript"
    /\ \E answers \in BOOLEAN, answer \in Fetched :
          IF answers
          THEN /\ transcript' = answer
               /\ events' = Append(events, Ev("fetch", "get_transcript", "ok", video_id))
               /\ pc' = StepAfter("get_transcript")
               /\ UNCHANGED exitCode
          ELSE FetchFailed
    /\ UNCHANGED <<argv, args, video_id, formatted_transcript, clipboard, file, fpBias, fin, fout>>

\* formatted_transcript = format_transcript(transcript, args.format, args.add_timestamps)
FormatTranscript ==
    /\ pc = "format_transcript"
    /\ LET r == format_transcript(transcript, args.format, args.add_timestamps)
       IN  IF r.ok
           THEN /\ formatted_transcript' = r.text
                /\ pc' = StepAfter("format_transcript")
                /\ UNCHANGED <<events, exitCode>>
           ELSE /\ ExceptClause("Invalid format type: ")
                /\ UNCHANGED formatted_transcript
    /\ UNCHANGED <<argv, args, video_id, transcript, clipboard, file, fpBias, fin, fout>>

\* if args.output_file and '.' not in args.output_file
NeedsExtension(output_file) == Truthy(output_file) /\ "." \notin Range(output_file)

\* args.output_file += get_default_extension(args.format)
DefaultExtension ==
    /\ pc = "default_extension"
    /\ args' = IF NeedsExtension(args.output_file)
               THEN [args EXCEPT !.output_file = @ \o get_default_extension(args.format)]
               ELSE args
    /\ pc' = StepAfter("default_extension")
    /\ UNCHANGED <<argv, video_id, transcript, formatted_transcript, events, clipboard, file,
                   exitCode, fpBias, fin, fout>>

\* copy_to_clipboard without its sys.exit(1)
copy_to_clipboard_NoExit(content, works) ==
    IF works
    THEN /\ clipboard' = content
         /\ events' = events \o << Ev("copy", "copy_to_clipboard", "ok", content),
                                   Ev("stdout", "copy_to_clipboard", "msg",
                                      <<"Transcript copied to clipboard">>) >>
         /\ pc' = StepAfter("clipboard")
         /\ UNCHANGED exitCode
    ELSE /\ events' = events \o << Ev("copy", "copy_to_clipboard", "failed", content),
                                   Ev("stderr", "copy_to_clipboard", "error",
                                      <<"Error copying to clipboard: ">>) >>
         /\ pc' = StepAfter("clipboard")
         /\ UNCHANGED <<clipboard, exitCode>>

\* copy_to_clipboard(content): pyperclip.copy succeeds or raises
copy_to_clipboard(content, works) ==
    IF works
    THEN /\ clipboard' = content
         /\ events' = events \o << Ev("copy", "copy_to_clipboard", "ok", content),
                                   Ev("stdout", "copy_to_clipboard", "msg",
                                      <<"Transcript copied to clipboard">>) >>
         /\ pc' = StepAfter("clipboard")
         /\ UNCHANGED exitCode
    ELSE /\ events' = events \o << Ev("copy", "copy_to_clipboard", "failed", content),
                                   Ev("stderr", "copy_to_clipboard", "error",
                                      <<"Error copying to clipboard: ">>) >>
         /\ Exit(1)
         /\ UNCHANGED clipboard

\* if args.clipboard: copy_to_clipboard(formatted_transcript)
Clipboard ==
    /\ pc = "clipboard"
    /\ IF args.clipboard
       THEN \E works \in BOOLEAN : copy_to_clipboard(formatted_transcript, works)
       ELSE /\ pc' = StepAfter("clipboard")
            /\ UNCHANGED <<events, clipboard, exitCode>>
    /\ UNCHANGED <<argv, args, video_id, transcript, formatted_transcript, file, fpBias, fin, fout>>

\* the last component of a path: what follows its last "/"
FileName(path) ==
    LET slashes == {i \in 1..Len(path) : path[i] = "/"}
    IN  IF slashes = {} THEN path
        ELSE SubSeq(path, (CHOOSE i \in slashes : \A j \in slashes : j <= i) + 1, Len(path))

\* open(filename, 'w') raises on a path that names a directory
NamesDirectory(path) == FileName(path) \in {<<>>, <<".">>, <<".", ".">>}

\* save_to_file without its sys.exit(1)
save_to_file_NoExit(content, filename, verbose, works) ==
    IF works
    THEN /\ file' = <<filename, content>>
         /\ events' = events
                \o << Ev("write", "save_to_file", "ok", filename),
                      Ev("stdout", "save_to_file", "msg", <<"Transcript saved to ">> \o filename) >>
                \o (IF verbose THEN Echo("save_to_file", content) ELSE <<>>)
         /\ pc' = StepAfter("output")
         /\ UNCHANGED exitCode
    ELSE /\ events' = events \o << Ev("write", "save_to_file", "failed", filename),
                                   Ev("stderr", "save_to_file", "error",
                                      <<"Error saving file: ">>) >>
         /\ pc' = StepAfter("output")
         /\ UNCHANGED <<file, exitCode>>

\* save_to_file(content, filename, verbose): open and write succeed or raise
save_to_file(content, filename, verbose, works) ==
    IF works
    THEN /\ file' = <<filename, content>>
         /\ events' = events
                \o << Ev("write", "save_to_file", "ok", filename),
                      Ev("stdout", "save_to_file", "msg", <<"Transcript saved to ">> \o filename) >>
                \o (IF verbose THEN Echo("save_to_file", content) ELSE <<>>)
         /\ pc' = StepAfter("output")
         /\ UNCHANGED exitCode
    ELSE /\ events' = events \o << Ev("write", "save_to_file", "failed", filename),
                                   Ev("stderr", "save_to_file", "error",
                                      <<"Error saving file: ">>) >>
         /\ Exit(1)
         /\ UNCHANGED file

\* else: instead of elif not args.clipboard:
PrintsPlainAlways(a) == TRUE

\* elif not args.clipboard: whether main prints the transcript itself
PrintsPlain(a) == ~a.clipboard

\* if args.output_file: save_to_file(...) elif not args.clipboard: print(...)
Output ==
    /\ pc = "output"
    /\ IF Truthy(args.output_file)
       THEN \E works \in BOOLEAN :
               /\ works => ~NamesDirectory(args.output_file)
               /\ save_to_file(formatted_transcript, args.output_file, args.verbose, works)
       ELSE /\ events' = IF PrintsPlain(args)
                         THEN Append(events, Ev("stdout", "main", "content", formatted_transcript))
                         ELSE events
            /\ pc' = StepAfter("output")
            /\ UNCHANGED <<file, exitCode>>
    /\ UNCHANGED <<argv, args, video_id, transcript, formatted_transcript, clipboard, fpBias, fin, fout>>

\* if args.verbose and args.clipboard
EchoesAgain(a) == a.verbose /\ a.clipboard

VerboseEcho ==
    /\ pc = "verbose_echo"
    /\ events' = IF EchoesAgain(args) THEN events \o Echo("main", formatted_transcript) ELSE events
    /\ pc' = StepAfter("verbose_echo")
    /\ UNCHANGED <<argv, args, video_id, transcript, formatted_transcript, clipboard, file,
                   exitCode, fpBias, fin, fout>>

\* main returns: the interpreter exits with status 0
Return ==
    /\ pc = "return"
    /\ Exit(0)
    /\ UNCHANGED <<argv, args, video_id, transcript, formatted_transcript, events, clipboard, file,
                   fpBias, fin, fout>>

Next ==
    \/ ParseArgs
    \/ GetVideoId
    \/ GetTranscript
    \/ FormatTranscript
    \/ DefaultExtension
    \/ Clipboard
    \/ Output
    \/ VerboseEcho
    \/ Return

Spec == Init /\ [][Next]_vars

----------------------------------------------------------------------------
(* get_video_id called on its own, on every string of a bounded family:    *)
(* a run of identifier characters of any length from 0 to IdLen + 2, with  *)
(* up to MaxAffix characters before it and after it                        *)

RunBase == Id1 \o <<"_", "-">>

AffixChar == {"v", "=", "/", "?", "\n"}

IdInputs(affix) ==
    { pre \o SubSeq(RunBase, 1, n) \o post :
        pre \in SeqsUpTo(AffixChar, affix),
        n \in 0..Len(RunBase),
        post \in SeqsUpTo(AffixChar, affix) }

Idle ==
    /\ argv = None
    /\ args = None
    /\ video_id = None
    /\ transcript = None
    /\ formatted_transcript = None
    /\ events = <<>>
    /\ clipboard = None
    /\ file = <<>>
    /\ exitCode = -1

InitId ==
    /\ pc = "call_get_video_id"
    /\ fin \in IdInputs(MaxAffix)
    /\ fout = ValueError
    /\ fpBias = 0
    /\ Idle

CallGetVideoId ==
    /\ pc = "call_get_video_id"
    /\ fout' = get_video_id(fin)
    /\ pc' = "returned"
    /\ UNCHANGED <<argv, args, video_id, transcript, formatted_transcript, events, clipboard,
                   file, exitCode, fpBias, fin>>

NextId == CallGetVideoId

SpecId == InitId /\ [][NextId]_vars

----------------------------------------------------------------------------
(* format_transcript called on its own, on every transcript of up to       *)
(* MaxEntries entries ordered by start, over instants chosen around the    *)
(* roundings: exact values, half a millisecond, half a microsecond, just   *)
(* under a full second, minute and hour, and past 99 hours                 *)

Starts ==
    { Secs(0, 0), Secs(0, 5000), Secs(0, 4995), Secs(59, 9996000), Secs(59, 9999996),
      Secs(3599, 9995000), Secs(3725, 8900000), Secs(360000, 5000000) }

Durations == { Secs(0, 0), Secs(2, 0), Secs(0, 4000) }

Before(a, b) == a.whole < b.whole \/ (a.whole = b.whole /\ a.sub <= b.sub)

CaptionEntries == [text : {"Hello"}, start : Starts, duration : Durations]

\* what the provider may return: the entries ordered by start
Transcripts(n) ==
    { t \in SeqsUpTo(CaptionEntries, n) :
        \A i \in 1..(Len(t) - 1) : Before(t[i].start, t[i + 1].start) }

InitTs ==
    /\ pc = "call_format_transcript"
    /\ fin \in [transcript : Transcripts(MaxEntries), format_type : Formats, include_timestamps : BOOLEAN]
    /\ fout = [ok |-> FALSE, text |-> <<>>]
    /\ fpBias \in {-1, 0, 1}
    /\ Idle

CallFormatTranscript ==
    /\ pc = "call_format_transcript"
    /\ fout' = format_transcript(fin.transcript, fin.format_type, fin.include_timestamps)
    /\ pc' = "returned"
    /\ UNCHANGED <<argv, args, video_id, transcript, formatted_transcript, events, clipboard,
                   file, exitCode, fpBias, fin>>

NextTs == CallFormatTranscript

SpecTs == InitTs /\ [][NextTs]_vars

----------------------------------------------------------------------------
(* What the claims speak of *)

EvIdx(op, what) == {i \in 1..Len(events) : events[i].op = op /\ events[i].what = what}

OpIdx(op) == {i \in 1..Len(events) : events[i].op = op}

ByIdx(by, what) == {i \in 1..Len(events) : events[i].by = by /\ events[i].what = what}

\* a print of the transcript's content, plain or between separator lines
ContentPrints == EvIdx("stdout", "content") \cup EvIdx("stdout", "echo_content")

EchoParts == {"echo_header", "echo_sep", "echo_content"}

FileRequested == Truthy(argv.output_file)

Exited == pc = "exited"

----------------------------------------------------------------------------
(* C1: in every run where the fetch fails the process exits with 1 after   *)
(* one fetch attempt, and no clipboard copy, no file write and no print of *)
(* the transcript's content is attempted.                                  *)

\* C1: a failed fetch ends the run with status 1 after one attempt and no output
C1_FetchFailureStopsRun ==
    EvIdx("fetch", "failed") # {} =>
        /\ Exited
        /\ exitCode = 1
        /\ Cardinality(OpIdx("fetch")) = 1
        /\ OpIdx("copy") = {}
        /\ OpIdx("write") = {}
        /\ ContentPrints = {}
        /\ clipboard = None
        /\ file = <<>>

C1_Witness ==
    /\ EvIdx("fetch", "failed") # {}
    /\ Exited
    /\ argv.clipboard /\ argv.verbose /\ FileRequested

----------------------------------------------------------------------------
(* C2: if a clipboard copy and a file write both happen, the copy comes    *)
(* first; the file echo comes after the file write and the clipboard echo  *)
(* (main's) after the clipboard copy.                                      *)

\* C2: copy before write, each verbose echo after its primary action
C2_SideEffectOrder ==
    /\ \A i \in OpIdx("copy"), j \in OpIdx("write") : i < j
    /\ \A j \in 1..Len(events) :
          events[j].by = "save_to_file" /\ events[j].what \in EchoParts
            => \E i \in EvIdx("write", "ok") : i < j
    /\ \A j \in 1..Len(events) :
          events[j].by = "main" /\ events[j].what \in EchoParts
            => \E i \in EvIdx("copy", "ok") : i < j

C2_Witness ==
    /\ Exited /\ exitCode = 0
    /\ EvIdx("copy", "ok") # {} /\ EvIdx("write", "ok") # {}
    /\ ByIdx("save_to_file", "echo_content") # {}
    /\ ByIdx("main", "echo_content") # {}

----------------------------------------------------------------------------
(* C3: every failure (invalid identifier, fetch, invalid format, file      *)
(* write, clipboard) is terminal: reported once on the error stream, no    *)
(* later step runs, exit status 1; a run in which nothing fails exits 0.   *)

InvalidFormat == argv.format \notin Formats

InvalidIdentifier == ~InvalidFormat /\ ~get_video_id(argv.video_id).ok

StepFailures == EvIdx("fetch", "failed") \cup EvIdx("copy", "failed") \cup EvIdx("write", "failed")

ReportedOnceAndLast ==
    /\ Cardinality(OpIdx("stderr")) = 1
    /\ events[Len(events)].op = "stderr"

\* while main runs nothing has failed and nothing was reported
RunningIsClean == ~Exited => OpIdx("stderr") = {} /\ StepFailures = {} /\ exitCode = -1

----------------------------------------------------------------------------
(* C4: clipboard and file both requested, the copy succeeds and the write  *)
(* fails: exit status 1, the clipboard still holds the formatted           *)
(* transcript, and the clipboard's success message was printed before the  *)
(* file error was reported.                                                *)

CopiedThenWriteFailed == EvIdx("copy", "ok") # {} /\ EvIdx("write", "failed") # {}

\* C4: copy succeeded, write failed: status 1, clipboard kept, its message first
C4_CopyKeptWhenWriteFails ==
    Exited /\ CopiedThenWriteFailed =>
        /\ exitCode = 1
        /\ clipboard = formatted_transcript
        /\ file = <<>>
        /\ \E i \in ByIdx("copy_to_clipboard", "msg"), j \in ByIdx("save_to_file", "error") :
              /\ events[i].op = "stdout"
              /\ events[j].op = "stderr"
              /\ i < j

C4_Witness == Exited /\ CopiedThenWriteFailed /\ argv.clipboard /\ FileRequested

----------------------------------------------------------------------------
(* C5: on a run that reaches the dispatcher the formatted string is        *)
(* printed plainly if and only if neither a file nor the clipboard was     *)
(* requested; so a successful run delivers the content to standard output, *)
(* the file or the clipboard.                                              *)

PlainPrint == ByIdx("main", "content")

\* the dispatcher's print step is behind: main is past it, or the process ended in or after it
PastDispatch == pc \in {"verbose_echo", "return"} \/ (Exited /\ formatted_transcript # None)

\* C5: plain print iff neither file nor clipboard; a successful run delivers
C5_PlainPrintIffNoTarget ==
    /\ PlainPrint # {} => ~FileRequested /\ ~argv.clipboard
    /\ \A i \in PlainPrint : events[i].op = "stdout" /\ events[i].data = formatted_transcript
    /\ PastDispatch => (PlainPrint # {} <=> ~FileRequested /\ ~argv.clipboard)
    /\ exitCode = 0 =>
          \/ PlainPrint # {}
          \/ (file # <<>> /\ file[2] = formatted_transcript)
          \/ clipboard = formatted_transcript

C5_Witness == exitCode = 0 /\ PlainPrint # {} /\ argv.verbose

----------------------------------------------------------------------------
(* C6: on a successful run main's own echo between separator lines happens *)
(* exactly when the clipboard was requested, no file was given and verbose *)
(* is set.                                                                 *)

\* C6: main echoes exactly when clipboard, no file and verbose
C6_DriverEchoOnlyWithoutFile ==
    exitCode = 0 =>
        (ByIdx("main", "echo_content") # {}
            <=> argv.clipboard /\ ~FileRequested /\ argv.verbose)

----------------------------------------------------------------------------
(* C8: the path written is the given path with the format's extension      *)
(* appended when its file name contains no ".", and the given path itself  *)
(* when the name contains one.                                             *)

ClaimedExtension(format) ==
    CASE format = "text" -> <<".", "t", "x", "t">>
      [] format = "json" -> <<".", "j", "s", "o", "n">>
      [] format = "srt" -> <<".", "s", "r", "t">>
      [] format = "vtt" -> <<".", "v", "t", "t">>

ClaimedPath(path, format) ==
    IF "." \in Range(FileName(path)) THEN path ELSE path \o ClaimedExtension(format)

\* C8: every file written is written at the path the rule on the file name gives
C8_ExtensionByFileName ==
    \A i \in EvIdx("write", "ok") : events[i].data = ClaimedPath(argv.output_file, argv.format)

----------------------------------------------------------------------------
(* C7: get_video_id returns the 11 characters that follow "v=" or "/" in   *)
(* the input, or the input itself when it is exactly 11 identifier         *)
(* characters, and fails on every other input.                             *)

\* the identifiers in URL position: 11 identifier characters after "v=" or "/"
UrlIds(s) ==
    { SubSeq(s, i + 2, i + 1 + IdLen) :
        i \in {k \in 1..Len(s) : k + 1 <= Len(s) /\ s[k] = "v" /\ s[k + 1] = "=" /\ IdAt(s, k + 2)} }
    \cup
    { SubSeq(s, i + 1, i + IdLen) : i \in {k \in 1..Len(s) : s[k] = "/" /\ IdAt(s, k + 1)} }

IsBareId(s) == Len(s) = IdLen /\ \A i \in 1..Len(s) : s[i] \in IdChar

\* C7: an identifier in URL position or the bare identifier is returned, every
\* other input fails
C7_VideoIdRule ==
    pc = "returned" =>
        IF UrlIds(fin) # {} THEN fout.ok /\ fout.id \in UrlIds(fin)
        ELSE IF IsBareId(fin) THEN fout.ok /\ fout.id = fin
        ELSE fout = ValueError

----------------------------------------------------------------------------
(* Reading the formatter's output back *)

\* text.split("\n")
RECURSIVE Lines(_)
Lines(toks) ==
    IF \A i \in 1..Len(toks) : toks[i] # "\n" THEN <<toks>>
    ELSE LET i == CHOOSE k \in 1..Len(toks) : toks[k] = "\n" /\ \A j \in 1..(k - 1) : toks[j] # "\n"
         IN  <<SubSeq(toks, 1, i - 1)>> \o Lines(SubSeq(toks, i + 1, Len(toks)))

AllDigits(s) == s # <<>> /\ \A i \in 1..Len(s) : s[i] \in DigitSet

\* a clock H..:MM:SS, with sep and the milliseconds after it when sep is not ""
ParseClock(ts, sep) ==
    LET colons == {i \in 1..Len(ts) : ts[i] = ":"}
        c1 == CHOOSE i \in colons : \A j \in colons : i <= j
        c2 == CHOOSE i \in colons : \A j \in colons : j <= i
        seps == {i \in 1..Len(ts) : ts[i] = sep}
        p == IF sep = "" THEN Len(ts) + 1 ELSE CHOOSE i \in seps : TRUE
        shaped == /\ Cardinality(colons) = 2
                  /\ (sep # "" => Cardinality(seps) = 1 /\ c2 < p)
        hh == SubSeq(ts, 1, c1 - 1)
        mm == SubSeq(ts, c1 + 1, c2 - 1)
        ss == SubSeq(ts, c2 + 1, p - 1)
        mmm == SubSeq(ts, p + 1, Len(ts))
    IN  IF shaped /\ AllDigits(hh) /\ AllDigits(mm) /\ AllDigits(ss) /\ (sep # "" => AllDigits(mmm))
        THEN [ok |-> TRUE, h |-> Int10(hh), m |-> Int10(mm), s |-> Int10(ss), ms |-> Int10(mmm),
              hlen |-> Len(hh), mlen |-> Len(mm), slen |-> Len(ss), mslen |-> Len(mmm)]
        ELSE [ok |-> FALSE, h |-> 0, m |-> 0, s |-> 0, ms |-> 0,
              hlen |-> 0, mlen |-> 0, slen |-> 0, mslen |-> 0]

\* "start --> end": the two clocks of a timing line
TimingLine(line, sep) ==
    LET arrows == {i \in 1..Len(line) : line[i] = " --> "}
        a == CHOOSE i \in arrows : TRUE
    IN  IF Cardinality(arrows) = 1
        THEN [ok |-> TRUE, start |-> ParseClock(SubSeq(line, 1, a - 1), sep),
              end |-> ParseClock(SubSeq(line, a + 1, Len(line)), sep)]
        ELSE [ok |-> FALSE, start |-> ParseClock(<<>>, sep), end |-> ParseClock(<<>>, sep)]

ClockSeconds(c) == c.h * 3600 + c.m * 60 + c.s

SubPerMs == SubPerSec \div 1000

Abs(x) == IF x < 0 THEN -x ELSE x

\* the clock read back is within a millisecond of the seconds it was made from
WithinOneMs(c, seconds) ==
    /\ c.ok
    /\ Abs(ClockSeconds(c) - seconds.whole) <= 1
    /\ Abs((ClockSeconds(c) - seconds.whole) * SubPerSec + c.ms * SubPerMs - seconds.sub) <= SubPerMs

ClockBefore(a, b) ==
    ClockSeconds(a) < ClockSeconds(b) \/ (ClockSeconds(a) = ClockSeconds(b) /\ a.ms <= b.ms)

\* the timing line of entry k in the lines of an SRT or a VTT text
TimingOf(lines, format, k) ==
    IF format = "srt" THEN TimingLine(lines[4 * (k - 1) + 2], ",")
    ELSE TimingLine(lines[2 + 3 * (k - 1) + 1], ".")

Returned == pc = "returned" /\ fout.ok

----------------------------------------------------------------------------
(* C9: in SRT and VTT output of a transcript ordered by start, the SRT     *)
(* sequence numbers are 1, 2, ..., n in entry order, the start timestamps  *)
(* do not decrease, and each start and end timestamp read back is within   *)
(* 1 ms of the entry's start and start + duration.                         *)

\* C9: numbering 1..n, starts not decreasing, clocks read back within 1 ms
C9_SubtitleRoundTrip ==
    Returned /\ fin.format_type \in {"srt", "vtt"} =>
        LET t == fin.transcript
            n == Len(t)
            f == fin.format_type
            lines == Lines(fout.text)
        IN  /\ f = "srt" => Len(lines) = Max(1, 4 * n)
            /\ f = "vtt" => Len(lines) = 2 + 3 * n /\ lines[1] = <<"WEBVTT">>
            /\ \A k \in 1..n :
                  /\ f = "srt" => lines[4 * (k - 1) + 1] = Str(k)
                  /\ TimingOf(lines, f, k).ok
                  /\ WithinOneMs(TimingOf(lines, f, k).start, t[k].start)
                  /\ WithinOneMs(TimingOf(lines, f, k).end, AddSeconds(t[k].start, t[k].duration))
            /\ \A k \in 1..(n - 1) :
                  ClockBefore(TimingOf(lines, f, k).start, TimingOf(lines, f, k + 1).start)

C9_Witness ==
    /\ Returned
    /\ fin.format_type = "srt"
    /\ Len(fin.transcript) = MaxEntries
    /\ fin.transcript[1].start = Secs(59, 9996000)
    /\ fin.transcript[MaxEntries].start = Secs(360000, 5000000)

----------------------------------------------------------------------------
(* C10: every timestamp the formatter emits is a well-formed clock value:  *)
(* minutes in 00..59, seconds below 60 (never 60.000), milliseconds of     *)
(* exactly 3 digits.                                                       *)

WellFormedClock(c, withMillis) ==
    /\ c.ok
    /\ c.hlen >= 2
    /\ c.mlen = 2 /\ c.m <= 59
    /\ c.slen = 2 /\ c.s <= 59
    /\ withMillis => c.mslen = 3

\* the bracketed clock that starts a line of text, and the one in a JSON "start" line
BracketClock(line) ==
    LET close == {i \in 1..Len(line) : line[i] = "]"}
    IN  ParseClock(SubSeq(line, 2, (CHOOSE i \in close : \A j \in close : i <= j) - 1), "")

\* C10: every clock emitted, in any format, is well formed
C10_ClocksWellFormed ==
    Returned =>
        LET n == Len(fin.transcript)
            f == fin.format_type
            lines == Lines(fout.text)
        IN  \A k \in 1..n :
               CASE f \in {"srt", "vtt"} ->
                        /\ WellFormedClock(TimingOf(lines, f, k).start, TRUE)
                        /\ WellFormedClock(TimingOf(lines, f, k).end, TRUE)
                 [] f = "json" ->
                        WellFormedClock(
                            ParseClock(SubSeq(lines[5 * (k - 1) + 4], 2, Len(lines[5 * (k - 1) + 4]) - 1), ""),
                            FALSE)
                 [] f = "text" ->
                        fin.include_timestamps => WellFormedClock(BracketClock(lines[k]), FALSE)

=============================================================================
